---- MODULE Spec2Model ----
(***************************************************************************)
(* Solana-Security-Patterns: the pattern dataset and its lookup            *)
(* (src/patterns.ts), the router table (src/App.tsx), the Pattern Detail   *)
(* page (src/HomePage.tsx, second half) and the CodeBlock widget with its  *)
(* copy-to-clipboard handler (src/unnamed/part_001).                       *)
(*                                                                         *)
(* Conventions.  Array positions are the 0-based positions of JavaScript;  *)
(* At(arr, i) reads arr[i].  A text is a sequence of characters; the long  *)
(* texts of the dataset are abbreviated to a few elements, whitespace      *)
(* runs kept as elements of their own.  A URL path is the sequence of its  *)
(* segments: "/" is << >>, "/pattern/x" is <<"pattern", "x">>.  Time is in *)
(* milliseconds.                                                           *)
(***************************************************************************)
EXTENDS Integers, Sequences, FiniteSets, TLC

VARIABLES
    securityPatterns,   \* the exported array of src/patterns.ts
    path,               \* location.pathname, as segments
    params,             \* useParams(): {} when id is absent, else {id}
    pattern,            \* PatternPage: const pattern (last render)
    currentIndex,       \* PatternPage: const currentIndex (last render)
    mounted,            \* CodeBlock instance -> is it in the tree
    code,               \* CodeBlock instance -> its code prop
    copied,             \* CodeBlock instance -> useState(false)
    inflight,           \* clipboard.writeText promises not yet settled
    timers,             \* pending setTimeout callbacks
    clipboard,          \* content of the system clipboard
    now,                \* current time
    nclicks,            \* number of handleCopy invocations so far
    lastCopyAt,         \* CodeBlock instance -> time of its latest resolved write
    prose,              \* the text given to a prose block
    blocks              \* what the prose block rendered for it

vars == <<securityPatterns, path, params, pattern, currentIndex, mounted, code,
          copied, inflight, timers, clipboard, now, nclicks, lastCopyAt,
          prose, blocks>>

markupVars == <<prose, blocks>>
navVars == <<path, params, pattern, currentIndex>>
widgetVars == <<mounted, code, copied, inflight, timers, clipboard, now,
                nclicks, lastCopyAt>>

----------------------------------------------------------------------------
(* Bounds *)

MaxTime == 3000        \* the clock stops here
MaxCopies == 2         \* handleCopy invocations of stand-alone CodeBlocks
MaxPageCopies == 1     \* handleCopy invocations on the Pattern Detail page
MaxCodeLen == 3        \* length of the code prop of a stand-alone CodeBlock
MaxPatterns == 3       \* length of the datasets given to the lookup alone
MaxProseLen == 5       \* length of the text given to a prose block

----------------------------------------------------------------------------
(* src/patterns.ts: the dataset *)

\* the prose blocks before any of them has rendered
NoBlocks == [section |-> "none", items |-> << >>]

\* JavaScript's undefined, where a record is expected
Undefined == [ref |-> -1]

\* the abbreviated text of a code sample
CodeText(id, file) ==
    <<"use anchor_lang::prelude::*;", "\n", id, file, "\n", "}">>

\* one element of the array; ref is the identity of the object
Pattern(ref, id, title, description, severity, category) ==
    [ref |-> ref, id |-> id, title |-> title, description |-> description,
     severity |-> severity,
     category |-> category,
     vulnerableCode |-> CodeText(id, "vulnerable"),
     secureCode |-> CodeText(id, "secure")]

DuplicateIdPatternsData ==
    << Pattern(0, "missing-signer-check", "Missing Signer Verification",
               "Failing to verify that critical accounts have signed the transaction, allowing unauthorized actions.",
               "critical", "Account Validation"),
       Pattern(1, "missing-owner-check", "Missing Account Owner Verification",
               "Not verifying that an account is owned by the expected program, allowing fake account injection.",
               "critical", "Account Validation"),
       Pattern(2, "integer-overflow", "Integer Overflow/Underflow",
               "Arithmetic operations that can wrap around, leading to unexpected values and fund theft.",
               "critical", "Arithmetic Safety"),
       Pattern(3, "pda-seed-collision", "PDA Seed Collision",
               "Using predictable or insufficient seeds for PDAs, allowing attackers to access or overwrite accounts.",
               "high", "PDA Security"),
       Pattern(4, "unsafe-cpi", "Unsafe Cross-Program Invocation (CPI)",
               "Improper CPI handling leading to privilege escalation, reentrancy, or unauthorized program calls.",
               "critical", "CPI Security"),
       Pattern(5, "missing-owner-check", "Account Data Matching Vulnerabilities",
               "Failing to verify relationships between accounts, allowing attackers to substitute malicious accounts.",
               "high", "Account Validation") >>

\* the array with the severity of its fourth record changed
SeverityDriftPatternsData ==
    << Pattern(0, "missing-signer-check", "Missing Signer Verification",
               "Failing to verify that critical accounts have signed the transaction, allowing unauthorized actions.",
               "critical", "Account Validation"),
       Pattern(1, "missing-owner-check", "Missing Account Owner Verification",
               "Not verifying that an account is owned by the expected program, allowing fake account injection.",
               "critical", "Account Validation"),
       Pattern(2, "integer-overflow", "Integer Overflow/Underflow",
               "Arithmetic operations that can wrap around, leading to unexpected values and fund theft.",
               "critical", "Arithmetic Safety"),
       Pattern(3, "pda-seed-collision", "PDA Seed Collision",
               "Using predictable or insufficient seeds for PDAs, allowing attackers to access or overwrite accounts.",
               "critical", "PDA Security"),
       Pattern(4, "unsafe-cpi", "Unsafe Cross-Program Invocation (CPI)",
               "Improper CPI handling leading to privilege escalation, reentrancy, or unauthorized program calls.",
               "critical", "CPI Security"),
       Pattern(5, "account-data-matching", "Account Data Matching Vulnerabilities",
               "Failing to verify relationships between accounts, allowing attackers to substitute malicious accounts.",
               "high", "Account Validation") >>

securityPatternsData ==
    << Pattern(0, "missing-signer-check", "Missing Signer Verification",
               "Failing to verify that critical accounts have signed the transaction, allowing unauthorized actions.",
               "critical", "Account Validation"),
       Pattern(1, "missing-owner-check", "Missing Account Owner Verification",
               "Not verifying that an account is owned by the expected program, allowing fake account injection.",
               "critical", "Account Validation"),
       Pattern(2, "integer-overflow", "Integer Overflow/Underflow",
               "Arithmetic operations that can wrap around, leading to unexpected values and fund theft.",
               "critical", "Arithmetic Safety"),
       Pattern(3, "pda-seed-collision", "PDA Seed Collision",
               "Using predictable or insufficient seeds for PDAs, allowing attackers to access or overwrite accounts.",
               "high", "PDA Security"),
       Pattern(4, "unsafe-cpi", "Unsafe Cross-Program Invocation (CPI)",
               "Improper CPI handling leading to privilege escalation, reentrancy, or unauthorized program calls.",
               "critical", "CPI Security"),
       Pattern(5, "account-data-matching", "Account Data Matching Vulnerabilities",
               "Failing to verify relationships between accounts, allowing attackers to substitute malicious accounts.",
               "high", "Account Validation") >>

\* src/PatternCard.tsx, README part: the entries of "Patterns Included"
ReadmePatterns ==
    << [title |-> "Missing Signer Verification", dir |-> "signer_check/",
        severity |-> "Critical"],
       [title |-> "Missing Owner Verification", dir |-> "owner_check/",
        severity |-> "Critical"],
       [title |-> "Integer Overflow/Underflow", dir |-> "arithmetic/",
        severity |-> "Critical"],
       [title |-> "PDA Seed Collision", dir |-> "pda_security/",
        severity |-> "High"],
       [title |-> "Unsafe CPI", dir |-> "cpi_security/",
        severity |-> "Critical"],
       [title |-> "Account Data Matching", dir |-> "account_matching/",
        severity |-> "High"] >>

\* arr[i] of JavaScript: undefined outside 0 .. length-1
At(arr, i) == IF i \in 0..(Len(arr) - 1) THEN arr[i + 1] ELSE Undefined

\* the positions of arr whose record has this id; id is {} for undefined
\* (=== of a string and undefined is false) and {s} for the string s
Matches(arr, id) == {i \in 0..(Len(arr) - 1) : {arr[i + 1].id} = id}

Min(S) == CHOOSE x \in S : \A y \in S : x <= y
Max(S) == CHOOSE x \in S : \A y \in S : x >= y

\* Array.prototype.findIndex with the predicate p => p.id === id
FindIndex(arr, id) ==
    IF Matches(arr, id) = {} THEN -1 ELSE Min(Matches(arr, id))

FindFromOne(arr, id) ==
    IF Matches(arr, {id}) \ {0} = {} THEN Undefined
    ELSE At(arr, Min(Matches(arr, {id}) \ {0}))

FindOrFirst(arr, id) ==
    IF Matches(arr, {id}) = {} THEN At(arr, 0)
    ELSE At(arr, Min(Matches(arr, {id})))

FindLast(arr, id) ==
    IF Matches(arr, {id}) = {} THEN Undefined
    ELSE At(arr, Max(Matches(arr, {id})))

\* Array.prototype.find with the predicate pattern => pattern.id === id
Find(arr, id) ==
    IF Matches(arr, {id}) = {} THEN Undefined
    ELSE At(arr, Min(Matches(arr, {id})))

\* getPatternById, over the array it reads
getPatternById(id) == Find(securityPatterns, id)

----------------------------------------------------------------------------
(* src/App.tsx: the route table *)

Home == << >>
DeepDive == <<"deep-dive">>
PatternPath(id) == <<"pattern", id>>

\* a <Route> whose path is mistyped
TypoRoutes ==
    << [path |-> << >>, element |-> "HomePage"],
       [path |-> <<"pattern", ":id">>, element |-> "PatternPage"],
       [path |-> <<"deepdive">>, element |-> "DeepDivePage"] >>

\* the <Route> children of <Routes>, in order; ":id" is a dynamic segment
Routes ==
    << [path |-> << >>, element |-> "HomePage"],
       [path |-> <<"pattern", ":id">>, element |-> "PatternPage"],
       [path |-> <<"deep-dive">>, element |-> "DeepDivePage"] >>

\* a route path matches a location of as many segments, a static segment
\* its equal and a dynamic segment any non-empty one
RouteMatches(rp, p) ==
    /\ Len(rp) = Len(p)
    /\ \A k \in 1..Len(rp) : IF rp[k] = ":id" THEN p[k] # "" ELSE rp[k] = p[k]

MatchingRoutes(p) == {k \in 1..Len(Routes) : RouteMatches(Routes[k].path, p)}

\* the page component the <Routes> element selects for a path
MatchRoute(p) ==
    IF MatchingRoutes(p) = {} THEN "none"
    ELSE Routes[Min(MatchingRoutes(p))].element

\* what App returns: the Layout with the selected page as its children
AppTree == [shell |-> "Layout", children |-> MatchRoute(path)]

\* useParams() for the matched route
RouteParams(p) ==
    IF MatchRoute(p) = "PatternPage" THEN {p[2]} ELSE {}

\* id || ''
IdOrEmpty(ps) == IF ps = {} THEN "" ELSE CHOOSE s \in ps : TRUE

----------------------------------------------------------------------------
(* src/unnamed/part_001: the CodeBlock widget *)

\* the two CodeBlock elements of the Pattern Detail page, by variant
Widgets == {"vulnerable", "secure"}

\* the delay handleCopy gives to setTimeout
CopiedTimeoutMs == 2000

\* the steps by which the clock advances
TickSteps == {1000}

Whitespace == {" ", "\n"}

\* String.prototype.trim
RECURSIVE TrimStart(_)
TrimStart(s) ==
    IF s # << >> /\ Head(s) \in Whitespace THEN TrimStart(Tail(s)) ELSE s

RECURSIVE TrimEnd(_)
TrimEnd(s) ==
    IF s # << >> /\ s[Len(s)] \in Whitespace
    THEN TrimEnd(SubSeq(s, 1, Len(s) - 1)) ELSE s

Trim(s) == TrimEnd(TrimStart(s))

\* the code prop of <Highlight>
HighlightCode(w) == Trim(code[w])

\* the text of the copy button
CopyButtonLabel(w) == IF copied[w] THEN "Copied!" ELSE "Copy"

\* the argument handleCopy passes to navigator.clipboard.writeText
TrimmedCopyPayload(w) == Trim(code[w])

CopyPayload(w) == code[w]

\* a handleCopy that shows the indicator at the click, before the write
HandleCopyOptimistic(w) ==
    /\ mounted[w]
    /\ nclicks < (IF path = Home THEN MaxCopies ELSE MaxPageCopies)
    /\ nclicks' = nclicks + 1
    /\ inflight' = inflight \cup
           {[n |-> nclicks + 1, w |-> w, text |-> CopyPayload(w), live |-> TRUE,
             on |-> copied[w]]}
    /\ copied' = [copied EXCEPT ![w] = TRUE]
    /\ UNCHANGED <<securityPatterns, markupVars, navVars, mounted, code, timers,
                   clipboard, now, lastCopyAt>>

\* handleCopy up to its await: the click issues the clipboard write.  The
\* record of the write notes whether the indicator was on at the click (on);
\* the guard on nclicks caps the clicks, separately for the CodeBlocks of the
\* Pattern Detail page and for stand-alone ones
HandleCopy(w) ==
    /\ mounted[w]
    /\ nclicks < (IF path = Home THEN MaxCopies ELSE MaxPageCopies)
    /\ nclicks' = nclicks + 1
    /\ inflight' = inflight \cup
           {[n |-> nclicks + 1, w |-> w, text |-> CopyPayload(w), live |-> TRUE,
             on |-> copied[w]]}
    /\ UNCHANGED <<securityPatterns, markupVars, navVars, mounted, code, copied, timers,
                   clipboard, now, lastCopyAt>>

\* a setCopied of a state shared by all the instances
SetCopiedShared(c, v) == IF c.live THEN [w \in Widgets |-> v] ELSE copied

\* setCopied(v) of the instance that issued the call; a state update of an
\* instance that has been unmounted is dropped
SetCopied(c, v) == IF c.live THEN [copied EXCEPT ![c.w] = v] ELSE copied

\* a timer of twice the delay
NewTimerLate(wr) ==
    IF wr.live THEN {[n |-> wr.n, w |-> wr.w, due |-> now + 2 * CopiedTimeoutMs,
                      restart |-> wr.on]}
    ELSE {}

\* setTimeout(() => setCopied(false), 2000) after the write wr; the callback
\* of an unmounted instance changes nothing and is left out
NewTimer(wr) ==
    IF wr.live THEN {[n |-> wr.n, w |-> wr.w, due |-> now + CopiedTimeoutMs,
                      restart |-> wr.on]}
    ELSE {}

\* a resolved write that starts no timer
ResolveWriteNoTimer(wr) ==
    /\ wr \in inflight
    /\ now + CopiedTimeoutMs <= MaxTime
    /\ inflight' = inflight \ {wr}
    /\ clipboard' = wr.text
    /\ copied' = SetCopied(wr, TRUE)
    /\ lastCopyAt' = IF wr.live THEN [lastCopyAt EXCEPT ![wr.w] = now]
                     ELSE lastCopyAt
    /\ UNCHANGED <<securityPatterns, markupVars, navVars, mounted, code, now, nclicks, timers>>

\* the write resolves: the sink has the text, handleCopy resumes after its
\* await with setCopied(true) and setTimeout(() => setCopied(false), 2000).
\* The guard on now keeps the delay of the timer within MaxTime
ResolveWrite(wr) ==
    /\ wr \in inflight
    /\ now + CopiedTimeoutMs <= MaxTime
    /\ inflight' = inflight \ {wr}
    /\ clipboard' = wr.text
    /\ copied' = SetCopied(wr, TRUE)
    /\ timers' = timers \cup NewTimer(wr)
    /\ lastCopyAt' = IF wr.live THEN [lastCopyAt EXCEPT ![wr.w] = now]
                     ELSE lastCopyAt
    /\ UNCHANGED <<securityPatterns, markupVars, navVars, mounted, code, now, nclicks>>

\* a rejected write that still shows the copied indicator
RejectWriteSetsCopied(wr) ==
    /\ wr \in inflight
    /\ inflight' = inflight \ {wr}
    /\ copied' = SetCopied(wr, TRUE)
    /\ UNCHANGED <<securityPatterns, markupVars, navVars, mounted, code, timers,
                   clipboard, now, nclicks, lastCopyAt>>

\* the write rejects: the await throws, the rest of handleCopy is skipped
RejectWrite(wr) ==
    /\ wr \in inflight
    /\ inflight' = inflight \ {wr}
    /\ UNCHANGED <<securityPatterns, markupVars, navVars, mounted, code, copied, timers,
                   clipboard, now, nclicks, lastCopyAt>>

\* the timer callback () => setCopied(false) runs when its delay has passed
TimerFire(t) ==
    /\ t \in timers
    /\ t.due <= now
    /\ timers' = timers \ {t}
    /\ copied' = [copied EXCEPT ![t.w] = FALSE]
    /\ UNCHANGED <<securityPatterns, markupVars, navVars, mounted, code, inflight,
                   clipboard, now, nclicks, lastCopyAt>>

\* time passes, never beyond the delay of a pending timer: a callback runs
\* when its delay has passed
Tick(d) ==
    /\ now + d <= MaxTime
    /\ \A t \in timers : now + d <= t.due
    /\ now' = now + d
    /\ UNCHANGED <<securityPatterns, markupVars, navVars, mounted, code, copied, inflight,
                   timers, clipboard, nclicks, lastCopyAt>>

Click == \E w \in Widgets : HandleCopy(w)
Resolve == \E wr \in inflight : ResolveWrite(wr)
Reject == \E wr \in inflight : RejectWrite(wr)
Fire == \E t \in timers : TimerFire(t)
Advance == \E d \in TickSteps : Tick(d)

CodeBlockNext == Click \/ Resolve \/ Reject \/ Fire \/ Advance

----------------------------------------------------------------------------
(* src/HomePage.tsx, second half: the Pattern Detail page *)

\* currentIndex of a render that returned before computing it
NoIndex == -2

\* PatternPage without its early return
ViewWithoutNotFound ==
    IF MatchRoute(path) = "PatternPage" \/ path = <<"pattern">>
    THEN "found"
    ELSE MatchRoute(path)

\* what PatternPage returns: the not-found view when !pattern, else the
\* found view; the other pages by their component
View ==
    IF MatchRoute(path) = "PatternPage" \/ path = <<"pattern">>
    THEN IF pattern = Undefined THEN "not-found" ELSE "found"
    ELSE MatchRoute(path)

WrapNextPattern ==
    At(securityPatterns, (currentIndex + 1) % Len(securityPatterns))

\* the record two positions after
NextPatternSkipping == At(securityPatterns, currentIndex + 2)

nextPattern == At(securityPatterns, currentIndex + 1)

\* the record two positions before
PrevPatternSkipping == At(securityPatterns, currentIndex - 2)

prevPattern == At(securityPatterns, currentIndex - 1)

\* the targets of the previous / next links of the found view: a link is
\* rendered when prevPattern / nextPattern is truthy
PrevLinkTo ==
    IF View = "found" /\ prevPattern # Undefined
    THEN {PatternPath(prevPattern.id)} ELSE {}

\* a next link made of the title of the record
NextLinkToTitle ==
    IF View = "found" /\ nextPattern # Undefined
    THEN {PatternPath(nextPattern.title)} ELSE {}

NextLinkTo ==
    IF View = "found" /\ nextPattern # Undefined
    THEN {PatternPath(nextPattern.id)} ELSE {}

\* the CodeBlock instances after a render of the found view of pat: an
\* instance already in the tree keeps its state and gets the new code prop
MountWidgets(pat) ==
    /\ mounted' = [w \in Widgets |-> TRUE]
    /\ code' = [w \in Widgets |->
                  IF w = "vulnerable" THEN pat.vulnerableCode ELSE pat.secureCode]
    /\ copied' = [w \in Widgets |-> IF mounted[w] THEN copied[w] ELSE FALSE]
    /\ lastCopyAt' = [w \in Widgets |-> IF mounted[w] THEN lastCopyAt[w] ELSE -1]
    /\ UNCHANGED <<inflight, timers>>

\* the CodeBlock instances after a render of any other view: their state is
\* discarded; their pending writes still reach the clipboard, their timer
\* callbacks change nothing and are left out
UnmountWidgets ==
    /\ mounted' = [w \in Widgets |-> FALSE]
    /\ code' = [w \in Widgets |-> << >>]
    /\ copied' = [w \in Widgets |-> FALSE]
    /\ lastCopyAt' = [w \in Widgets |-> -1]
    /\ inflight' = {[c EXCEPT !.live = FALSE] : c \in inflight}
    /\ timers' = {}

\* a render that takes the first record out of the array
RenderShifting(p, ps) ==
    LET pat == IF MatchRoute(p) = "PatternPage" \/ p = <<"pattern">>
               THEN getPatternById(IdOrEmpty(ps)) ELSE Undefined
    IN  /\ path' = p
        /\ params' = ps
        /\ pattern' = pat
        /\ currentIndex' = IF pat = Undefined THEN NoIndex
                           ELSE FindIndex(securityPatterns, ps)
        /\ IF pat = Undefined THEN UnmountWidgets ELSE MountWidgets(pat)
        /\ securityPatterns' = IF pat = Undefined THEN securityPatterns
                               ELSE Tail(securityPatterns)
        /\ UNCHANGED <<markupVars, clipboard, now, nclicks>>

\* the router shows path p with route parameters ps: PatternPage runs
\* getPatternById(id || ''), returns the not-found view or goes on to
\* findIndex(p => p.id === id)
Render(p, ps) ==
    LET pat == IF MatchRoute(p) = "PatternPage" \/ p = <<"pattern">>
               THEN getPatternById(IdOrEmpty(ps)) ELSE Undefined
    IN  /\ path' = p
        /\ params' = ps
        /\ pattern' = pat
        /\ currentIndex' = IF pat = Undefined THEN NoIndex
                           ELSE FindIndex(securityPatterns, ps)
        /\ IF pat = Undefined THEN UnmountWidgets ELSE MountWidgets(pat)
        /\ UNCHANGED <<securityPatterns, markupVars, clipboard, now, nclicks>>

Goto(p) == Render(p, RouteParams(p))

\* the paths a visitor may enter directly
Urls ==
    {Home, DeepDive, <<"about">>, PatternPath("nonexistent-id"),
     PatternPath("integer-overflow")}

OpenUrl(p) == p # path /\ Goto(p)

\* src/HomePage.tsx, first half: the first entry of stats
PatternCountStat ==
    [label |-> "Security Patterns", value |-> Len(securityPatterns)]

\* cards for the first three records only
FirstThreeCards ==
    [k \in 1..(IF Len(securityPatterns) < 3 THEN Len(securityPatterns) ELSE 3) |->
        [key |-> securityPatterns[k].id,
         id |-> securityPatterns[k].id,
         title |-> securityPatterns[k].title,
         description |-> securityPatterns[k].description,
         severity |-> securityPatterns[k].severity,
         category |-> securityPatterns[k].category,
         index |-> k - 1]]

\* securityPatterns.map((pattern, index) => <PatternCard ... />): the props
\* of the cards of the grid, in order
HomeCards ==
    [k \in 1..Len(securityPatterns) |->
        [key |-> securityPatterns[k].id,
         id |-> securityPatterns[k].id,
         title |-> securityPatterns[k].title,
         description |-> securityPatterns[k].description,
         severity |-> securityPatterns[k].severity,
         category |-> securityPatterns[k].category,
         index |-> k - 1]]

\* obj[key] inside a template literal: the text "undefined" for a missing key
ClassOf(obj, key) == IF key \in DOMAIN obj THEN obj[key] ELSE "undefined"

\* src/PatternCard.tsx: const severityColors
PatternCard_severityColors ==
    [critical |-> "bg-error/20 text-error border-error/30",
     high |-> "bg-warning/20 text-warning border-warning/30",
     medium |-> "bg-secondary/20 text-secondary border-secondary/30"]

\* the badge of a card: ${severityColors[severity]}
CardBadgeClass(card) == ClassOf(PatternCard_severityColors, card.severity)

\* a mapping whose medium entry repeats the one of high
PatternPage_severityColorsHighTwice ==
    [critical |-> "bg-error/20 text-error border-error/30",
     high |-> "bg-warning/20 text-warning border-warning/30",
     medium |-> "bg-warning/20 text-warning border-warning/30"]

\* src/HomePage.tsx, second half: const severityColors of PatternPage
PatternPage_severityColors ==
    [critical |-> "bg-error/20 text-error border-error/30",
     high |-> "bg-warning/20 text-warning border-warning/30",
     medium |-> "bg-secondary/20 text-secondary border-secondary/30"]

\* the badge of the found view: ${severityColors[pattern.severity]}
PageBadgeClass == ClassOf(PatternPage_severityColors, pattern.severity)

\* a card link with a mistyped prefix
CardLinkToPatterns(card) == <<"patterns", card.id>>

\* src/PatternCard.tsx: <Link to={`/pattern/${id}`}>
CardLinkTo(card) == PatternPath(card.id)

\* the visitor activates the card of position i of the grid
ClickCard(i) ==
    /\ View = "HomePage"
    /\ i \in 0..(Len(HomeCards) - 1)
    /\ Goto(CardLinkTo(HomeCards[i + 1]))

ClickPrev == \E p \in PrevLinkTo : Goto(p)

ClickNext == \E p \in NextLinkTo : Goto(p)

\* <Link to="/"> of both views of PatternPage ("Back to all patterns")
BackLinkTo == IF View \in {"found", "not-found"} THEN {Home} ELSE {}

ClickBack == \E p \in BackLinkTo : Goto(p)

\* src/unnamed/part_002: the navigation items of the Layout
navItems ==
    << [path |-> Home, label |-> "Patterns"],
       [path |-> DeepDive, label |-> "Deep Dive"] >>

\* an item active on every path that begins with its own
isActivePrefix(item) ==
    Len(path) >= Len(item.path) /\ SubSeq(path, 1, Len(item.path)) = item.path

\* const isActive = location.pathname === item.path
isActive(item) == path = item.path

\* the className of the <Link> of a navigation item
NavItemClass(item) ==
    IF isActive(item) THEN "bg-primary/20 text-primary border border-primary/30"
    ELSE "text-text-secondary hover:text-text hover:bg-surface-light"

\* <Link to={item.path}> of a navigation item, on every page
ClickNavItem(k) == navItems[k].path # path /\ Goto(navItems[k].path)

\* src/unnamed/part_000: the sections of the Deep Dive page, in order
sections ==
    << [id |-> "introduction", title |-> "Introduction"],
       [id |-> "account-model", title |-> "Understanding Solana's Account Model"],
       [id |-> "vulnerability-categories", title |-> "Vulnerability Categories"],
       [id |-> "anchor-security", title |-> "Anchor Security Features"],
       [id |-> "best-practices", title |-> "Security Best Practices"],
       [id |-> "testing-security", title |-> "Testing for Security"] >>

\* `#${section.id}`
Anchor(id) == <<"#", id>>

\* sections.map((section, index) => <a key href={`#${section.id}`}>
\* {index + 1}. {section.title}</a>)
TableOfContents ==
    [k \in 1..Len(sections) |->
        [key |-> sections[k].id,
         href |-> Anchor(sections[k].id),
         number |-> (k - 1) + 1,
         title |-> sections[k].title]]

\* sections.map((section, index) => <motion.section key id={section.id}>)
SectionAnchors == [k \in 1..Len(sections) |-> Anchor(sections[k].id)]

\* Array.prototype.slice(start, end) with 0 <= start <= end
Slice(arr, start, end) == SubSeq(arr, start + 1, Min({end, Len(arr)}))

\* the links of the records of positions 1 to 3
CrossRefsFromSecond ==
    LET shown == Slice(securityPatterns, 1, 4)
    IN  [k \in 1..Len(shown) |->
            [key |-> shown[k].id,
             to |-> PatternPath(shown[k].id),
             category |-> shown[k].category,
             title |-> shown[k].title]]

\* securityPatterns.slice(0, 3).map((pattern) =>
\* <Link key={pattern.id} to={`/pattern/${pattern.id}`}>)
CrossRefs ==
    LET shown == Slice(securityPatterns, 0, 3)
    IN  [k \in 1..Len(shown) |->
            [key |-> shown[k].id,
             to |-> PatternPath(shown[k].id),
             category |-> shown[k].category,
             title |-> shown[k].title]]

\* the visitor activates the cross-reference of position i
ClickCrossRef(i) ==
    /\ View = "DeepDivePage"
    /\ i \in 0..(Len(CrossRefs) - 1)
    /\ Goto(CrossRefs[i + 1].to)

\* <Link to="/"> of the Deep Dive page ("View all patterns")
ViewAllLinkTo == IF View = "DeepDivePage" THEN {Home} ELSE {}

ClickViewAll == \E p \in ViewAllLinkTo : Goto(p)

Init ==
    /\ securityPatterns = securityPatternsData
    /\ path = Home
    /\ params = {}
    /\ pattern = Undefined
    /\ currentIndex = NoIndex
    /\ mounted = [w \in Widgets |-> FALSE]
    /\ code = [w \in Widgets |-> << >>]
    /\ copied = [w \in Widgets |-> FALSE]
    /\ inflight = {}
    /\ timers = {}
    /\ clipboard = << >>
    /\ now = 0
    /\ nclicks = 0
    /\ lastCopyAt = [w \in Widgets |-> -1]
    /\ prose = << >>
    /\ blocks = NoBlocks

Next ==
    \/ \E p \in Urls : OpenUrl(p)
    \/ \E i \in 0..(Len(securityPatterns) - 1) : ClickCard(i)
    \/ ClickPrev
    \/ ClickNext
    \/ ClickBack
    \/ \E k \in 1..Len(navItems) : ClickNavItem(k)
    \/ \E i \in 0..2 : ClickCrossRef(i)
    \/ ClickViewAll
    \/ Click
    \/ Resolve
    \/ Reject
    \/ Fire
    \/ Advance

Spec == Init /\ [][Next]_vars

\* the steps of a visitor who follows the links of the app and types no URL
LinksNext ==
    \/ \E i \in 0..(Len(securityPatterns) - 1) : ClickCard(i)
    \/ ClickPrev
    \/ ClickNext
    \/ ClickBack
    \/ \E k \in 1..Len(navItems) : ClickNavItem(k)
    \/ \E i \in 0..2 : ClickCrossRef(i)
    \/ ClickViewAll
    \/ Click
    \/ Resolve
    \/ Reject
    \/ Fire
    \/ Advance

SpecLinks == Init /\ [][LinksNext]_vars

\* the Pattern Detail page of the first record, just rendered
WalkInit ==
    /\ securityPatterns = securityPatternsData
    /\ path = PatternPath(securityPatternsData[1].id)
    /\ params = {securityPatternsData[1].id}
    /\ pattern = securityPatternsData[1]
    /\ currentIndex = 0
    /\ mounted = [w \in Widgets |-> TRUE]
    /\ code = [w \in Widgets |->
                  IF w = "vulnerable" THEN securityPatternsData[1].vulnerableCode
                  ELSE securityPatternsData[1].secureCode]
    /\ copied = [w \in Widgets |-> FALSE]
    /\ inflight = {}
    /\ timers = {}
    /\ clipboard = << >>
    /\ now = 0
    /\ nclicks = 0
    /\ lastCopyAt = [w \in Widgets |-> -1]
    /\ prose = << >>
    /\ blocks = NoBlocks

\* the steps of a visitor who only follows the next link; the CodeBlocks of
\* the page and the clock go on
WalkNext == ClickNext \/ Click \/ Resolve \/ Reject \/ Fire \/ Advance

\* the visitor goes on following the next link while there is one
SpecWalk == WalkInit /\ [][WalkNext]_vars /\ WF_vars(ClickNext)

----------------------------------------------------------------------------
(* The lookup alone, over any dataset *)

LookupIds == {"", "a", "b"}

\* the arrays of at most MaxPatterns records with ids of LookupIds, and the
\* array of src/patterns.ts
LookupDatasets ==
    {securityPatternsData} \cup
    UNION {{[i \in 1..n |-> Pattern(i - 1, ids[i], "t", "d", "high", "c")] :
               ids \in [1..n -> LookupIds]} : n \in 0..MaxPatterns}

\* PatternPage rendered with a given result of useParams(); with no id or an
\* empty one the path is that of a route without the parameter
LookupRender(ps) ==
    /\ path = Home \/ ps # params
    /\ Render(IF IdOrEmpty(ps) = "" THEN <<"pattern">>
              ELSE PatternPath(IdOrEmpty(ps)), ps)

LookupInit ==
    /\ securityPatterns \in LookupDatasets
    /\ path = Home
    /\ params = {}
    /\ pattern = Undefined
    /\ currentIndex = NoIndex
    /\ mounted = [w \in Widgets |-> FALSE]
    /\ code = [w \in Widgets |-> << >>]
    /\ copied = [w \in Widgets |-> FALSE]
    /\ inflight = {}
    /\ timers = {}
    /\ clipboard = << >>
    /\ now = 0
    /\ nclicks = 0
    /\ lastCopyAt = [w \in Widgets |-> -1]
    /\ prose = << >>
    /\ blocks = NoBlocks

LookupParams == {{}} \cup {{x} : x \in LookupIds \cup {"nonexistent-id"}}

LookupNext == \E ps \in LookupParams : LookupRender(ps)

SpecLookup == LookupInit /\ [][LookupNext]_vars

----------------------------------------------------------------------------
(* The CodeBlock widget alone, with any code prop *)

\* the code props a stand-alone CodeBlock is given
Chars == {" ", "\n", "x"}
Texts == UNION {[1..n -> Chars] : n \in 0..MaxCodeLen}

\* two CodeBlocks outside the Pattern Detail page, the first with any code prop
CodeBlockInit ==
    /\ securityPatterns = securityPatternsData
    /\ path = Home
    /\ params = {}
    /\ pattern = Undefined
    /\ currentIndex = NoIndex
    /\ mounted = [w \in Widgets |-> TRUE]
    /\ \E c \in Texts :
          code = [w \in Widgets |-> IF w = "vulnerable" THEN c ELSE <<"y", " ">>]
    /\ copied = [w \in Widgets |-> FALSE]
    /\ inflight = {}
    /\ timers = {}
    /\ clipboard = << >>
    /\ now = 0
    /\ nclicks = 0
    /\ lastCopyAt = [w \in Widgets |-> -1]
    /\ prose = << >>
    /\ blocks = NoBlocks

SpecCodeBlock == CodeBlockInit /\ [][CodeBlockNext]_vars

\* the event loop runs a callback whose delay has passed, and time passes
SpecCodeBlockFair ==
    /\ SpecCodeBlock
    /\ WF_vars(Fire)
    /\ WF_vars(Advance)

----------------------------------------------------------------------------
(* The prose blocks: src/HomePage.tsx (PatternPage) and src/unnamed/part_000 *)

Bold == <<"*", "*">>
Digits == {"1"}

\* String.prototype.startsWith / endsWith
StartsWith(s, pre) == Len(s) >= Len(pre) /\ SubSeq(s, 1, Len(pre)) = pre

EndsWith(s, suf) ==
    Len(s) >= Len(suf) /\ SubSeq(s, Len(s) - Len(suf) + 1, Len(s)) = suf

\* text.split('\n'): the lines, one more than there are newlines
RECURSIVE SplitLines(_)
SplitLines(s) ==
    IF \A k \in 1..Len(s) : s[k] # "\n" THEN <<s>>
    ELSE LET k == Min({j \in 1..Len(s) : s[j] = "\n"})
         IN  <<SubSeq(s, 1, k - 1)>> \o SplitLines(SubSeq(s, k + 1, Len(s)))

\* s.replace(/\*\*/g, ''): every match removed, left to right
RECURSIVE RemoveAllBold(_)
RemoveAllBold(s) ==
    IF s = << >> THEN << >>
    ELSE IF StartsWith(s, Bold) THEN RemoveAllBold(SubSeq(s, 3, Len(s)))
    ELSE <<Head(s)>> \o RemoveAllBold(Tail(s))

\* s.replace(pat, ''): the first occurrence removed, wherever it is
RemoveFirst(s, pat) ==
    LET at == {k \in 1..(Len(s) - Len(pat) + 1) : SubSeq(s, k, k + Len(pat) - 1) = pat}
    IN  IF at = {} THEN s
        ELSE SubSeq(s, 1, Min(at) - 1) \o SubSeq(s, Min(at) + Len(pat), Len(s))

\* the number of digits s begins with
RECURSIVE LeadingDigits(_)
LeadingDigits(s) ==
    IF s # << >> /\ Head(s) \in Digits THEN 1 + LeadingDigits(Tail(s)) ELSE 0

\* s.match(/^\d+\./)
MatchesNumeral(s) ==
    /\ LeadingDigits(s) >= 1
    /\ Len(s) > LeadingDigits(s)
    /\ s[LeadingDigits(s) + 1] = "."

\* s.replace(/^\d+\.\s*/, '')
StripNumeral(s) ==
    IF MatchesNumeral(s)
    THEN TrimStart(SubSeq(s, LeadingDigits(s) + 2, Len(s)))
    ELSE s

\* the children React shows for an array of elements and falsy values
RECURSIVE Flatten(_)
Flatten(ss) ==
    IF ss = << >> THEN << >> ELSE Head(ss) \o Flatten(Tail(ss))

\* PatternPage, explanation / vulnerableExplanation / secureExplanation:
\* line.trim() && <p key={i}>{line}</p>
ExplanationLine(line, i) ==
    IF Trim(line) = << >> THEN << >>
    ELSE <<[key |-> i, kind |-> "p", emphasis |-> FALSE, text |-> line]>>

ExplanationItems(text) ==
    LET lines == SplitLines(text)
    IN  Flatten([k \in 1..Len(lines) |-> ExplanationLine(lines[k], k - 1)])

\* PatternPage, attackScenario: line.trim() &&
\* <p className={line.startsWith('**') ? 'font-semibold text-text' : ''}>
\*   {line.replace(/\*\*/g, '')}</p>
AttackScenarioLine(line, i) ==
    IF Trim(line) = << >> THEN << >>
    ELSE <<[key |-> i, kind |-> "p", emphasis |-> StartsWith(line, Bold),
            text |-> RemoveAllBold(line)]>>

AttackScenarioItems(text) ==
    LET lines == SplitLines(text)
    IN  Flatten([k \in 1..Len(lines) |-> AttackScenarioLine(lines[k], k - 1)])

\* a classification that tests the line as it is, not trimmed
DeepDiveLineUntrimmed(paragraph, i) ==
    IF StartsWith(paragraph, Bold) /\ EndsWith(paragraph, Bold)
    THEN <<[key |-> i, kind |-> "h3", emphasis |-> TRUE,
            text |-> RemoveAllBold(paragraph)]>>
    ELSE IF StartsWith(paragraph, <<"-", " ">>)
    THEN <<[key |-> i, kind |-> "li", emphasis |-> FALSE,
            text |-> RemoveFirst(paragraph, <<"-", " ">>)]>>
    ELSE IF MatchesNumeral(paragraph)
    THEN <<[key |-> i, kind |-> "li list-decimal", emphasis |-> FALSE,
            text |-> StripNumeral(paragraph)]>>
    ELSE IF Trim(paragraph) = << >> THEN << >>
    ELSE <<[key |-> i, kind |-> "p", emphasis |-> FALSE, text |-> paragraph]>>

\* DeepDivePage, section.content: the chain of tests on paragraph.trim()
DeepDiveLine(paragraph, i) ==
    IF StartsWith(Trim(paragraph), Bold) /\ EndsWith(Trim(paragraph), Bold)
    THEN <<[key |-> i, kind |-> "h3", emphasis |-> TRUE,
            text |-> RemoveAllBold(paragraph)]>>
    ELSE IF StartsWith(Trim(paragraph), <<"-", " ">>)
    THEN <<[key |-> i, kind |-> "li", emphasis |-> FALSE,
            text |-> RemoveFirst(paragraph, <<"-", " ">>)]>>
    ELSE IF MatchesNumeral(Trim(paragraph))
    THEN <<[key |-> i, kind |-> "li list-decimal", emphasis |-> FALSE,
            text |-> StripNumeral(paragraph)]>>
    ELSE IF Trim(paragraph) = << >> THEN << >>
    ELSE <<[key |-> i, kind |-> "p", emphasis |-> FALSE, text |-> paragraph]>>

DeepDiveItems(text) ==
    LET lines == SplitLines(text)
    IN  Flatten([k \in 1..Len(lines) |-> DeepDiveLine(lines[k], k - 1)])

\* a prose block renders the text it is given
RenderProse(section, items) ==
    /\ blocks.section # section
    /\ blocks' = [section |-> section, items |-> items]
    /\ UNCHANGED <<securityPatterns, navVars, widgetVars, prose>>

RenderExplanation == RenderProse("explanation", ExplanationItems(prose))

RenderAttackScenario == RenderProse("attackScenario", AttackScenarioItems(prose))

RenderDeepDiveSection == RenderProse("deepDive", DeepDiveItems(prose))

\* the texts given to the prose blocks
MarkupChars == {"*", "-", " ", "1", ".", "a", "\n"}
ProseTexts == UNION {[1..n -> MarkupChars] : n \in 0..MaxProseLen}

MarkupInit ==
    /\ securityPatterns = securityPatternsData
    /\ path = Home
    /\ params = {}
    /\ pattern = Undefined
    /\ currentIndex = NoIndex
    /\ mounted = [w \in Widgets |-> FALSE]
    /\ code = [w \in Widgets |-> << >>]
    /\ copied = [w \in Widgets |-> FALSE]
    /\ inflight = {}
    /\ timers = {}
    /\ clipboard = << >>
    /\ now = 0
    /\ nclicks = 0
    /\ lastCopyAt = [w \in Widgets |-> -1]
    /\ prose \in ProseTexts
    /\ blocks = NoBlocks

MarkupNext == RenderExplanation \/ RenderAttackScenario \/ RenderDeepDiveSection

SpecMarkup == MarkupInit /\ [][MarkupNext]_vars

----------------------------------------------------------------------------
(* src/unnamed/part_001: what a CodeBlock shows for its props *)

Variants == {"vulnerable", "secure", "neutral"}

\* the optional props of a CodeBlock: {} when the prop is not given
CodeBlockProps ==
    [variant : {{}} \cup {{v} : v \in Variants},
     showLineNumbers : {{}, {TRUE}, {FALSE}}]

\* a destructured prop with a default value
Default(given, d) == IF given = {} THEN d ELSE CHOOSE x \in given : TRUE

VariantOf(props) == Default(props.variant, "neutral")

ShowLineNumbersOf(props) == Default(props.showLineNumbers, TRUE)

variantStyles ==
    [vulnerable |-> [border |-> "border-error/30", bg |-> "bg-error/5",
                     icon |-> "AlertTriangle", iconColor |-> "text-error",
                     label |-> "VULNERABLE", labelBg |-> "bg-error/20",
                     glow |-> "glow-error"],
     secure |-> [border |-> "border-success/30", bg |-> "bg-success/5",
                 icon |-> "Shield", iconColor |-> "text-success",
                 label |-> "SECURE", labelBg |-> "bg-success/20",
                 glow |-> "glow-success"],
     neutral |-> [border |-> "border-border", bg |-> "bg-surface",
                  icon |-> "null", iconColor |-> "",
                  label |-> "", labelBg |-> "", glow |-> ""]]

\* {Icon && <div><Icon /><span>{style.label}</span></div>}
HeaderBadge(props) ==
    LET style == variantStyles[VariantOf(props)]
    IN  IF style.icon # "null"
        THEN <<[icon |-> style.icon, label |-> style.label,
                labelBg |-> style.labelBg, iconColor |-> style.iconColor]>>
        ELSE << >>

\* the classes of the outer element
FrameClass(props) ==
    LET style == variantStyles[VariantOf(props)]
    IN  [border |-> style.border, bg |-> style.bg,
         glow |-> IF VariantOf(props) # "neutral" THEN style.glow ELSE ""]

\* the lines <Highlight> gives for its code: one per line of the text
tokens(w) == SplitLines(HighlightCode(w))

\* line numbers that start at 0
LineNumbersFromZero(props, w) ==
    IF ShowLineNumbersOf(props)
    THEN [k \in 1..Len(tokens(w)) |-> k - 1]
    ELSE << >>

\* tokens.map((line, i) => showLineNumbers && <span>{i + 1}</span>)
LineNumbers(props, w) ==
    IF ShowLineNumbersOf(props)
    THEN [k \in 1..Len(tokens(w)) |-> (k - 1) + 1]
    ELSE << >>

\* the props PatternPage gives to its two CodeBlocks
PageProps(w) == [variant |-> {w}, showLineNumbers |-> {}]

----------------------------------------------------------------------------
(* Properties *)

Positions == 0..(Len(securityPatterns) - 1)

\* the ids the properties of the lookup range over
ProbeIds == LookupIds \cup {"nonexistent-id"} \cup
            {securityPatternsData[i].id : i \in 1..Len(securityPatternsData)}

\* C1: for every record r of securityPatterns, getPatternById(r.id) is r
\* itself (the same object), and the Pattern Detail page routed with r.id
\* holds r as its pattern.
C1_LookupRoundTrip ==
    \A i \in Positions :
        /\ getPatternById(At(securityPatterns, i).id) = At(securityPatterns, i)
        /\ getPatternById(At(securityPatterns, i).id).ref = i
        /\ path = PatternPath(At(securityPatterns, i).id)
              => pattern = At(securityPatterns, i)

C1_Witness ==
    /\ path = PatternPath("account-data-matching")
    /\ pattern.ref = 5
    /\ pattern.id = "account-data-matching"

\* C2: for an id that no record has (the empty string of an absent route
\* parameter included) getPatternById returns undefined, the page shows the
\* not-found view, and no step changes the dataset.
C2_NotFound ==
    /\ [](\A id \in ProbeIds :
             (\A i \in Positions : At(securityPatterns, i).id # id)
                => /\ getPatternById(id) = Undefined
                   /\ (path # Home /\ IdOrEmpty(params) = id)
                         => (pattern = Undefined /\ View = "not-found"))
    /\ [][securityPatterns' = securityPatterns]_vars

C2_Witness ==
    /\ securityPatterns = securityPatternsData
    /\ path = <<"pattern">>
    /\ params = {}
    /\ pattern = Undefined
    /\ View = "not-found"

\* C3: for any dataset, also one with several records of one id, and any
\* id, the result of getPatternById is the record at the smallest position
\* whose id equals the input, and undefined when there is none.
C3_FirstMatch ==
    \A id \in ProbeIds :
        LET r == getPatternById(id)
        IN  /\ IF \E i \in Positions : At(securityPatterns, i).id = id
               THEN \E i \in Positions :
                       /\ r = At(securityPatterns, i)
                       /\ r.ref = At(securityPatterns, i).ref
                       /\ At(securityPatterns, i).id = id
                       /\ \A j \in 0..(i - 1) : At(securityPatterns, j).id # id
               ELSE r = Undefined
            /\ (path # Home /\ params = {id}) => pattern = r

C3_Witness ==
    /\ Len(securityPatterns) = 3
    /\ At(securityPatterns, 0).id = "b"
    /\ At(securityPatterns, 1).id = "a"
    /\ At(securityPatterns, 2).id = "a"
    /\ params = {"a"}
    /\ pattern.ref = 1

\* C4: on the detail page of the record at position p the previous link
\* targets the record at p-1 and the next link the record at p+1; the first
\* record has no previous link, the last no next link, nothing wraps around.
C4_PrevNextLinks ==
    \A p \in Positions :
        path = PatternPath(At(securityPatterns, p).id)
           => /\ View = "found"
              /\ PrevLinkTo = IF p = 0 THEN {}
                              ELSE {PatternPath(At(securityPatterns, p - 1).id)}
              /\ NextLinkTo = IF p = Len(securityPatterns) - 1 THEN {}
                              ELSE {PatternPath(At(securityPatterns, p + 1).id)}

C4_Witness ==
    /\ path = PatternPath("account-data-matching")
    /\ View = "found"
    /\ NextLinkTo = {}
    /\ PrevLinkTo = {PatternPath("unsafe-cpi")}

\* C5: after a successful copy that was invoked while the copied indicator
\* was on, the indicator is on until 2 seconds after that copy: until then
\* no timer of an earlier copy has turned it off.
C5_WindowRestarts ==
    \A t \in timers :
        (t.restart /\ mounted[t.w] /\ now < t.due) => copied[t.w]

\* C6: a write that resolves turns the indicator of its widget on in that
\* step; the indicator is never on later than 2 seconds after the latest
\* resolved write; every copied state is followed by a not-copied state.
C6_CopiedThenReverts ==
    /\ [][\A wr \in inflight :
             (ResolveWrite(wr) /\ wr.live) => copied'[wr.w]]_vars
    /\ [](\A w \in Widgets :
             copied[w] => /\ lastCopyAt[w] >= 0
                          /\ now <= lastCopyAt[w] + CopiedTimeoutMs)
    /\ \A w \in Widgets : copied[w] ~> ~copied[w]

C6_Witness ==
    /\ lastCopyAt["vulnerable"] = 0
    /\ now = CopiedTimeoutMs
    /\ ~copied["vulnerable"]
    /\ timers = {}
    /\ nclicks = 1

\* C7: the text handed to the clipboard is the code prop as given, leading
\* and trailing whitespace included; only the highlighter gets the trimmed
\* text.
C7_CopyUntrimmed ==
    /\ \A wr \in inflight : wr.text = code[wr.w]
    /\ (\E w \in Widgets : lastCopyAt[w] >= 0)
          => clipboard \in {code[w] : w \in {v \in Widgets : lastCopyAt[v] >= 0}}
    /\ \A w \in Widgets : HighlightCode(w) = TrimEnd(TrimStart(code[w]))

C7_Witness ==
    /\ code["vulnerable"] = <<" ", "x", "\n">>
    /\ lastCopyAt["vulnerable"] >= 0
    /\ lastCopyAt["secure"] < 0
    /\ clipboard = <<" ", "x", "\n">>
    /\ HighlightCode("vulnerable") = <<"x">>

C9_IdsUnique ==
    \A i \in Positions : \A j \in Positions :
        At(securityPatterns, i).id = At(securityPatterns, j).id => i = j

C9_Witness ==
    /\ Len(securityPatterns) = 6
    /\ View = "found"
    /\ currentIndex = 5
    /\ pattern = At(securityPatterns, 5)

\* C10: no navigation, lookup, render or copy step changes the number of
\* records, their order or a field of a record.
C10_DatasetReadOnly ==
    /\ [](securityPatterns = securityPatternsData)
    /\ [][securityPatterns' = securityPatterns]_vars

C10_Witness ==
    /\ View = "found"
    /\ currentIndex = 3
    /\ lastCopyAt["secure"] >= 0
    /\ clipboard = At(securityPatterns, 3).secureCode
    /\ securityPatterns = securityPatternsData

\* C11: "/" selects the Home page, "/pattern/{id}" the Pattern Detail page
\* with the path parameter id, "/deep-dive" the Deep Dive page; for each of
\* these paths exactly one route matches, and the page is the children of
\* the Layout.
C11_Routing ==
    /\ AppTree.shell = "Layout"
    /\ path = << >> => AppTree.children = "HomePage"
    /\ path = <<"deep-dive">> => AppTree.children = "DeepDivePage"
    /\ (Len(path) = 2 /\ path[1] = "pattern")
          => (AppTree.children = "PatternPage" /\ params = {path[2]})
    /\ (path = << >> \/ path = <<"deep-dive">> \/ (Len(path) = 2 /\ path[1] = "pattern"))
          => Cardinality(MatchingRoutes(path)) = 1

C11_Witness ==
    /\ path = <<"deep-dive">>
    /\ AppTree = [shell |-> "Layout", children |-> "DeepDivePage"]
    /\ View = "DeepDivePage"

\* C12: the Pattern Detail page shows the not-found view, with its link
\* back to the list, exactly when the lookup of the routed id returns
\* undefined, and the found view exactly when it returns a record; the
\* not-found view stays as it is until the path changes.
C12_NotFoundView ==
    /\ [](MatchRoute(path) = "PatternPage"
            => /\ View \in {"found", "not-found"}
               /\ View = "not-found"
                     <=> getPatternById(IdOrEmpty(RouteParams(path))) = Undefined
               /\ View = "found"
                     <=> getPatternById(IdOrEmpty(RouteParams(path))) # Undefined
               /\ View = "not-found"
                     => (BackLinkTo = {<< >>} /\ PrevLinkTo = {} /\ NextLinkTo = {}
                         /\ \A w \in Widgets : ~mounted[w])
               /\ View = "found" => pattern = getPatternById(path[2]))
    /\ [][(View = "not-found" /\ path' = path)
             => (View' = "not-found" /\ UNCHANGED <<navVars, securityPatterns>>)]_vars

C12_Witness ==
    /\ path = <<"pattern", "nonexistent-id">>
    /\ View = "not-found"
    /\ pattern = Undefined
    /\ now > 0

\* C13: the pattern-count statistic of the Home page is the length of the
\* dataset, 6, and the grid has one card per record, in dataset order, with
\* the id, title, description, severity and category of its record.
C13_HomeCountAndCards ==
    View = "HomePage"
       => /\ PatternCountStat.value = Len(securityPatterns)
          /\ PatternCountStat.value = 6
          /\ Len(HomeCards) = Len(securityPatterns)
          /\ \A i \in Positions :
                LET card == HomeCards[i + 1]
                    rec == At(securityPatterns, i)
                IN  /\ card.id = rec.id
                    /\ card.title = rec.title
                    /\ card.description = rec.description
                    /\ card.severity = rec.severity
                    /\ card.category = rec.category

C13_Witness ==
    /\ View = "HomePage"
    /\ now > 0
    /\ Len(HomeCards) = 6
    /\ HomeCards[6].title = "Account Data Matching Vulnerabilities"
    /\ HomeCards[4].severity = "high"

\* C14: activating the card of record r goes to the path made of the prefix
\* /pattern/ and r.id, where the Pattern Detail page shows r.
C14_CardNavigates ==
    [][\A i \in Positions :
          ClickCard(i)
             => /\ path' = <<"pattern", At(securityPatterns, i).id>>
                /\ View' = "found"
                /\ pattern' = At(securityPatterns, i)
                /\ currentIndex' = i]_vars

C14_Witness ==
    /\ path = <<"pattern", "unsafe-cpi">>
    /\ View = "found"
    /\ pattern = At(securityPatterns, 4)
    /\ nclicks = 0
    /\ now = 0

\* C15: every record's severity is one of critical, high, medium; the card
\* and the detail page give the three values three pairwise distinct
\* treatments, the same on both, and show each record with the treatment of
\* its severity.
Severities == {"critical", "high", "medium"}

C15_SeverityTreatments ==
    /\ \A i \in Positions : At(securityPatterns, i).severity \in Severities
    /\ DOMAIN PatternCard_severityColors = Severities
    /\ DOMAIN PatternPage_severityColors = Severities
    /\ \A a \in Severities : \A b \in Severities :
          a # b => /\ PatternCard_severityColors[a] # PatternCard_severityColors[b]
                   /\ PatternPage_severityColors[a] # PatternPage_severityColors[b]
    /\ \A a \in Severities :
          PatternCard_severityColors[a] = PatternPage_severityColors[a]
    /\ View = "HomePage"
          => \A k \in 1..Len(HomeCards) : CardBadgeClass(HomeCards[k]) # "undefined"
    /\ View = "found"
          => /\ PageBadgeClass # "undefined"
             /\ \A k \in 1..Len(HomeCards) :
                   HomeCards[k].id = pattern.id
                      => CardBadgeClass(HomeCards[k]) = PageBadgeClass

C15_Witness ==
    /\ View = "found"
    /\ pattern.severity = "high"
    /\ PageBadgeClass = "bg-warning/20 text-warning border-warning/30"
    /\ CardBadgeClass(HomeCards[1]) = "bg-error/20 text-error border-error/30"

\* C16: the dataset has the six patterns of the README's "Patterns
\* Included", in its order (signer check, owner check, integer overflow, PDA
\* seed collision, unsafe CPI, account data matching), each with the
\* severity the README gives: critical, critical, critical, high, critical,
\* high.
ReadmeSeverity == [Critical |-> "critical", High |-> "high", Medium |-> "medium"]

C16_ReadmeOrderAndSeverity ==
    /\ Len(securityPatterns) = Len(ReadmePatterns)
    /\ [k \in 1..Len(securityPatterns) |-> securityPatterns[k].id]
          = <<"missing-signer-check", "missing-owner-check", "integer-overflow",
              "pda-seed-collision", "unsafe-cpi", "account-data-matching">>
    /\ [k \in 1..Len(securityPatterns) |-> securityPatterns[k].severity]
          = <<"critical", "critical", "critical", "high", "critical", "high">>
    /\ \A k \in 1..Len(ReadmePatterns) :
          securityPatterns[k].severity = ReadmeSeverity[ReadmePatterns[k].severity]
    /\ \A k \in {1, 3, 4} : securityPatterns[k].title = ReadmePatterns[k].title

C16_Witness ==
    /\ View = "found"
    /\ currentIndex = 3
    /\ pattern.id = "pda-seed-collision"
    /\ pattern.severity = ReadmeSeverity[ReadmePatterns[4].severity]
    /\ pattern.severity = "high"


\* the lines of the text a prose block was given, and the blocks it shows
ProseLines == SplitLines(prose)

LineOf(item) == ProseLines[item.key + 1]

HasBold(s) == \E k \in 1..(Len(s) - 1) : SubSeq(s, k, k + 1) = Bold

\* one block per line that is not blank, in the order of the lines
OneBlockPerLine ==
    /\ \A k \in 1..Len(blocks.items) :
          /\ blocks.items[k].key \in 0..(Len(ProseLines) - 1)
          /\ Trim(LineOf(blocks.items[k])) # << >>
    /\ \A j, k \in 1..Len(blocks.items) :
          j < k => blocks.items[j].key < blocks.items[k].key
    /\ Len(blocks.items)
          = Cardinality({k \in 1..Len(ProseLines) : Trim(ProseLines[k]) # << >>})

\* C17: in the vulnerableExplanation and secureExplanation blocks each
\* non-empty line is one paragraph, and a paragraph that starts and ends with
\* the ** marker is rendered as emphasis, without literal asterisks.
C17_ExplanationEmphasis ==
    blocks.section = "explanation" =>
        /\ OneBlockPerLine
        /\ \A k \in 1..Len(blocks.items) :
              LET item == blocks.items[k]
                  t == Trim(LineOf(item))
              IN  /\ item.kind = "p"
                  /\ (Len(t) > 4 /\ StartsWith(t, Bold) /\ EndsWith(t, Bold))
                        => (item.emphasis /\ ~HasBold(item.text))

StartsWithNumeral(t) ==
    \E n \in 1..(Len(t) - 1) : (\A k \in 1..n : t[k] \in Digits) /\ t[n + 1] = "."

\* a text that starts with a **...** span: the marker, some text, the marker
StartsWithBoldSpan(t) ==
    StartsWith(t, Bold) /\ \E k \in 3..(Len(t) - 1) : SubSeq(t, k, k + 1) = Bold

\* the block kind of a line, the subheading test being IsHeading
KindAsStated(t) ==
    IF StartsWithBoldSpan(t) THEN "h3"
    ELSE IF StartsWith(t, <<"-", " ">>) THEN "li"
    ELSE IF StartsWithNumeral(t) THEN "li list-decimal"
    ELSE "p"

KindAmended(t) ==
    IF StartsWith(t, Bold) /\ EndsWith(t, Bold) THEN "h3"
    ELSE IF StartsWith(t, <<"-", " ">>) THEN "li"
    ELSE IF StartsWithNumeral(t) THEN "li list-decimal"
    ELSE "p"

C20_CrossRefsAndContents ==
    /\ [](View = "DeepDivePage"
            => /\ Len(CrossRefs) = 3
               /\ \A i \in 0..2 :
                     LET rec == At(securityPatterns, i)
                         ref == CrossRefs[i + 1]
                     IN  /\ ref.to = <<"pattern", rec.id>>
                         /\ ref.title = rec.title
                         /\ ref.category = rec.category
                         /\ MatchRoute(ref.to) = "PatternPage"
               /\ Len(TableOfContents) = Len(sections)
               /\ \A k \in 1..Len(sections) :
                     /\ TableOfContents[k].href = <<"#", sections[k].id>>
                     /\ TableOfContents[k].href = SectionAnchors[k]
                     /\ TableOfContents[k].title = sections[k].title
                     /\ TableOfContents[k].number = k
                     /\ \A j \in 1..Len(sections) :
                           SectionAnchors[j] = SectionAnchors[k] => j = k)
    /\ [][\A i \in 0..2 :
             ClickCrossRef(i)
                => /\ View' = "found"
                   /\ pattern' = At(securityPatterns, i)
                   /\ currentIndex' = i]_vars

C20_Witness ==
    /\ View = "DeepDivePage"
    /\ now > 0
    /\ CrossRefs[3].to = <<"pattern", "integer-overflow">>
    /\ CrossRefs[1].title = "Missing Signer Verification"
    /\ TableOfContents[6].href = <<"#", "testing-security">>


\* C21: the CodeBlock shows the label VULNERABLE for variant vulnerable, the
\* label SECURE for variant secure, and no label and no framing of its own
\* for variant neutral, the default when no variant is given; line numbers
\* are shown by default and number the displayed lines 1, 2, 3, ... in order.
C21_VariantLabelsAndLineNumbers ==
    /\ \A props \in CodeBlockProps :
          /\ props.variant = {"vulnerable"}
                => (Len(HeaderBadge(props)) = 1
                    /\ HeaderBadge(props)[1].label = "VULNERABLE")
          /\ props.variant = {"secure"}
                => (Len(HeaderBadge(props)) = 1
                    /\ HeaderBadge(props)[1].label = "SECURE")
          /\ props.variant \in {{}, {"neutral"}}
                => /\ HeaderBadge(props) = << >>
                   /\ FrameClass(props).glow = ""
                   /\ FrameClass(props) = FrameClass([props EXCEPT !.variant = {"neutral"}])
                   /\ \A v \in {"vulnerable", "secure"} :
                         /\ FrameClass([props EXCEPT !.variant = {v}]).glow # ""
                         /\ FrameClass([props EXCEPT !.variant = {v}]).border
                               # FrameClass(props).border
          /\ \A w \in Widgets :
                mounted[w] =>
                   LET n == Cardinality({k \in 1..Len(HighlightCode(w)) :
                                            HighlightCode(w)[k] = "\n"}) + 1
                   IN  /\ props.showLineNumbers \in {{}, {TRUE}}
                            => LineNumbers(props, w) = [k \in 1..n |-> k]
                       /\ props.showLineNumbers = {FALSE}
                            => LineNumbers(props, w) = << >>
    /\ \A w \in Widgets :
          mounted[w] => /\ Len(HeaderBadge(PageProps(w))) = 1
                        /\ Len(LineNumbers(PageProps(w), w)) >= 1

C21_Witness ==
    /\ mounted["vulnerable"]
    /\ code["vulnerable"] = <<"x", "\n", "x">>
    /\ LineNumbers(PageProps("vulnerable"), "vulnerable") = <<1, 2>>
    /\ HeaderBadge(PageProps("vulnerable"))[1].label = "VULNERABLE"
    /\ copied["vulnerable"]


\* C22: the copied indicator has two states; it is off in every newly
\* mounted widget, turns on only in the step in which a clipboard write of
\* the widget resolves, and turns off, while the widget stays mounted, only
\* in the step in which a timeout expires.
C22_IndicatorTransitions ==
    /\ [](\A w \in Widgets : copied[w] \in BOOLEAN /\ (copied[w] => mounted[w]))
    /\ [][\A w \in Widgets :
             /\ (~mounted[w] /\ mounted'[w]) => ~copied'[w]
             /\ (~copied[w] /\ copied'[w])
                   => \E wr \in inflight :
                         wr.w = w /\ wr.live /\ ResolveWrite(wr)
             /\ (copied[w] /\ ~copied'[w] /\ mounted'[w])
                   => \E t \in timers :
                         t.w = w /\ t.due <= now /\ TimerFire(t)]_vars

C22_Witness ==
    /\ View = "found"
    /\ mounted["secure"]
    /\ ~copied["secure"]
    /\ lastCopyAt["secure"] = 0
    /\ now = CopiedTimeoutMs
    /\ timers = {}


\* C23: whenever the copied indicator of a widget is on, a clipboard write
\* of that widget resolved within the preceding 2 seconds; under every
\* interleaving of clicks, resolutions and expiries the indicator is never
\* on later than 2 seconds after the latest successful copy.
C23_IndicatorWithinWindow ==
    \A w \in Widgets :
        copied[w] => /\ lastCopyAt[w] >= 0
                     /\ lastCopyAt[w] <= now
                     /\ now - lastCopyAt[w] <= 2000

C23_Witness ==
    /\ copied["vulnerable"]
    /\ nclicks = 2
    /\ inflight = {}
    /\ lastCopyAt["vulnerable"] = 1000
    /\ now = 2000


\* the steps of one widget leave the copied indicator of the other unchanged
OtherIndicatorUnchanged ==
    /\ \A w \in Widgets : HandleCopy(w) => copied' = copied
    /\ \A wr \in inflight :
          ResolveWrite(wr) => \A v \in Widgets \ {wr.w} : copied'[v] = copied[v]
    /\ \A wr \in inflight : RejectWrite(wr) => copied' = copied
    /\ \A t \in timers :
          TimerFire(t) => \A v \in Widgets \ {t.w} : copied'[v] = copied[v]

LinkId(p) == p[2]

\* the pattern links of the view shown
PatternLinks ==
    PrevLinkTo \cup NextLinkTo
    \cup (IF View = "HomePage"
          THEN {CardLinkTo(HomeCards[k]) : k \in 1..Len(HomeCards)} ELSE {})
    \cup (IF View = "DeepDivePage"
          THEN {CrossRefs[k].to : k \in 1..Len(CrossRefs)} ELSE {})

\* C25: from the Home page, following only the links of the app, the
\* not-found view is never reached: every card, previous/next link and
\* Deep Dive cross-reference carries the id of a record of the dataset.
C25_LinksNeverNotFound ==
    /\ View # "not-found"
    /\ \A p \in PatternLinks :
          /\ MatchRoute(p) = "PatternPage"
          /\ getPatternById(LinkId(p)) # Undefined

C25_Witness ==
    /\ View = "found"
    /\ currentIndex = 5
    /\ PrevLinkTo = {<<"pattern", "unsafe-cpi">>}
    /\ NextLinkTo = {}
    /\ nclicks = 1


\* C26: previous and next are inverse on the detail page: after following
\* the next link the previous link leads back to the path left, after
\* following the previous link the next link leads back to it, and that
\* path shows the record left.
C26_PrevNextInverse ==
    [][/\ ClickNext => /\ PrevLinkTo' = {path}
                       /\ currentIndex' = currentIndex + 1
                       /\ getPatternById(LinkId(path)) = pattern
       /\ ClickPrev => /\ NextLinkTo' = {path}
                       /\ currentIndex' = currentIndex - 1
                       /\ getPatternById(LinkId(path)) = pattern]_vars

C26_Witness ==
    /\ View = "found"
    /\ currentIndex = 2
    /\ PrevLinkTo = {<<"pattern", "missing-owner-check">>}
    /\ NextLinkTo = {<<"pattern", "pda-seed-collision">>}
    /\ now = 1000
    /\ nclicks = 0


\* C27: from the detail page of the first record, following the next link
\* again and again shows the records one by one in dataset order, each step
\* one position further, there being a next link exactly before the last
\* record; the walk ends on the last record, after Len - 1 steps, and never
\* comes back to a record.
C27_NextWalkTerminates ==
    /\ [](/\ View = "found"
          /\ currentIndex \in 0..(Len(securityPatterns) - 1)
          /\ pattern = At(securityPatterns, currentIndex)
          /\ path = <<"pattern", At(securityPatterns, currentIndex).id>>
          /\ (NextLinkTo # {}) <=> (currentIndex < Len(securityPatterns) - 1))
    /\ [][ClickNext => currentIndex' = currentIndex + 1]_vars
    /\ [][currentIndex' >= currentIndex]_vars
    /\ <>[](currentIndex = Len(securityPatterns) - 1 /\ ~ENABLED ClickNext)

C27_Witness ==
    /\ currentIndex = Len(securityPatterns) - 1
    /\ path = <<"pattern", "account-data-matching">>
    /\ NextLinkTo = {}
    /\ now = 0
    /\ nclicks = 0


ActiveLabels ==
    {navItems[k].label : k \in {j \in 1..Len(navItems) :
        NavItemClass(navItems[j]) = "bg-primary/20 text-primary border border-primary/30"}}

\* C29: the layout marks a navigation item active exactly when the current
\* path equals the path of the item: on / only Patterns, on /deep-dive only
\* Deep Dive, on a /pattern/{id} path no item, and never more than one.
C29_ActiveNavItem ==
    /\ \A k \in 1..Len(navItems) :
          (navItems[k].label \in ActiveLabels) <=> (path = navItems[k].path)
    /\ path = << >> => ActiveLabels = {"Patterns"}
    /\ path = <<"deep-dive">> => ActiveLabels = {"Deep Dive"}
    /\ (Len(path) = 2 /\ path[1] = "pattern") => ActiveLabels = {}
    /\ Cardinality(ActiveLabels) <= 1

C29_Witness ==
    /\ path = <<"pattern", "missing-signer-check">>
    /\ ActiveLabels = {}
    /\ View = "found"
    /\ now = 2000


\* the trimmed line without the marker its kind was told by
WithoutMarker(kind, t) ==
    IF kind = "h3" THEN RemoveAllBold(t)
    ELSE IF kind = "li" THEN SubSeq(t, 3, Len(t))
    ELSE IF kind = "li list-decimal"
    THEN SubSeq(t, LeadingDigits(t) + 2, Len(t))
    ELSE t

====
